---- MODULE Spec2Model ----
(***************************************************************************)
(* PriceProphet (src/index.tsx): the pricing service SimulatedBackend      *)
(* (analyzePrice, calculateConversion), the render of DashboardResult and  *)
(* the state of the App container.                                         *)
(*                                                                         *)
(* JavaScript numbers are IEEE-754 binary64.  They are modelled exactly:   *)
(* a finite number is sg * m * 2^e with a 53-bit mantissa m, every         *)
(* arithmetic operation rounds to nearest, ties to even.  Mantissas are    *)
(* naturals in base 2^15 (little-endian sequences of limbs), because the   *)
(* model checker's integers have 32 bits.  Not modelled: the sign of zero, *)
(* subnormals and overflow to Infinity (no price here is near 2^-1022 or   *)
(* 2^1024).                                                                *)
(***************************************************************************)
EXTENDS Integers, Sequences, FiniteSets, TLC

\* ------------------------------------------------------------------------
\* Bounds of the model
\* ------------------------------------------------------------------------
\* longest competitor list in an AI payload
MaxCompetitors == 1
\* calculateConversion is explored for every currentPrice of 0.01..MaxSmallPrice/100
MaxSmallPrice == 12

\* ------------------------------------------------------------------------
\* Naturals of any size: little-endian limbs in base 2^15, no leading zero limb
\* ------------------------------------------------------------------------
LimbBits == 15
Base == 2^LimbBits
\* bits of a binary64 mantissa
MantBits == 53

RECURSIVE BStrip(_)
BStrip(a) == IF a = <<>> THEN <<>>
             ELSE IF a[Len(a)] = 0 THEN BStrip(SubSeq(a, 1, Len(a) - 1)) ELSE a

RECURSIVE BFromNat(_)
BFromNat(n) == IF n = 0 THEN <<>> ELSE <<n % Base>> \o BFromNat(n \div Base)

RECURSIVE BToNat(_)
BToNat(a) == IF a = <<>> THEN 0 ELSE Head(a) + Base * BToNat(Tail(a))

\* the lowest limb of a, and the limbs above it
BDigit(a) == IF a = <<>> THEN 0 ELSE Head(a)
BRest(a) == IF a = <<>> THEN a ELSE Tail(a)

RECURSIVE BAddC(_, _, _)
BAddC(a, b, c) ==
  IF a = <<>> /\ b = <<>> THEN (IF c = 0 THEN <<>> ELSE <<c>>)
  ELSE <<(BDigit(a) + BDigit(b) + c) % Base>>
         \o BAddC(BRest(a), BRest(b), (BDigit(a) + BDigit(b) + c) \div Base)

BAdd(a, b) == BAddC(a, b, 0)

RECURSIVE BSubC(_, _, _)
BSubC(a, b, c) ==
  IF a = <<>> THEN <<>>
  ELSE <<(Head(a) - BDigit(b) - c) % Base>>
         \o BSubC(Tail(a), BRest(b), IF Head(a) - BDigit(b) - c < 0 THEN 1 ELSE 0)

\* a - b, for a >= b
BSub(a, b) == BStrip(BSubC(a, b, 0))

RECURSIVE BCmpFrom(_, _, _)
BCmpFrom(a, b, i) == IF i = 0 THEN 0
                     ELSE IF a[i] < b[i] THEN -1
                     ELSE IF a[i] > b[i] THEN 1
                     ELSE BCmpFrom(a, b, i - 1)

\* -1, 0 or 1
BCmp(a, b) == IF Len(a) < Len(b) THEN -1
              ELSE IF Len(a) > Len(b) THEN 1
              ELSE BCmpFrom(a, b, Len(a))

RECURSIVE BMulSmallC(_, _, _)
BMulSmallC(a, k, c) ==
  IF a = <<>> THEN (IF c = 0 THEN <<>> ELSE <<c>>)
  ELSE <<(Head(a) * k + c) % Base>> \o BMulSmallC(Tail(a), k, (Head(a) * k + c) \div Base)

\* a * k, for k < Base
BMulSmall(a, k) == IF k = 0 THEN <<>> ELSE BMulSmallC(a, k, 0)

\* a * Base
BShiftLimb(a) == IF a = <<>> THEN a ELSE <<0>> \o a

RECURSIVE BMul(_, _)
BMul(a, b) == IF a = <<>> \/ b = <<>> THEN <<>>
              ELSE BAdd(BMulSmall(a, Head(b)), BShiftLimb(BMul(a, Tail(b))))

\* a * 2^n
BShl(a, n) == IF a = <<>> THEN a
              ELSE [i \in 1..(n \div LimbBits) |-> 0] \o BMulSmall(a, 2^(n % LimbBits))

RECURSIVE BDivSmallR(_, _, _)
BDivSmallR(a, k, r) ==
  IF a = <<>> THEN <<>>
  ELSE BDivSmallR(SubSeq(a, 1, Len(a) - 1), k, (r * Base + a[Len(a)]) % k)
         \o <<(r * Base + a[Len(a)]) \div k>>

\* floor(a / k), for k <= Base
BDivSmall(a, k) == BStrip(BDivSmallR(a, k, 0))

\* floor(a / 2^n)
BShr(a, n) == IF Len(a) <= n \div LimbBits THEN <<>>
              ELSE BDivSmall(SubSeq(a, (n \div LimbBits) + 1, Len(a)), 2^(n % LimbBits))

RECURSIVE BitLenNat(_)
BitLenNat(n) == IF n = 0 THEN 0 ELSE 1 + BitLenNat(n \div 2)

BBitLen(a) == IF a = <<>> THEN 0 ELSE LimbBits * (Len(a) - 1) + BitLenNat(a[Len(a)])

BIsOdd(a) == a # <<>> /\ a[1] % 2 = 1

\* One limb of a quotient: the largest q with q * d <= r, for r < d * Base and
\* the top limb of d at least Base / 2.  The estimate from the top limbs of r
\* and d, capped at Base - 1, is at most 2 too large.
BTop(r, d) == IF Len(r) > Len(d) THEN r[Len(r)] * Base + r[Len(r) - 1] ELSE r[Len(r)]

BEstimate(r, d) == IF BTop(r, d) \div d[Len(d)] > Base - 1 THEN Base - 1
                   ELSE BTop(r, d) \div d[Len(d)]

BCorrect(r, d, q0) == IF BCmp(BMulSmall(d, q0), r) <= 0 THEN q0
                      ELSE IF BCmp(BMulSmall(d, q0 - 1), r) <= 0 THEN q0 - 1
                      ELSE q0 - 2

BDivDigit(r, d) == IF BCmp(r, d) < 0 THEN 0 ELSE BCorrect(r, d, BEstimate(r, d))

\* the remainder r with the next limb x of the dividend brought down
BPush(x, r) == IF r = <<>> THEN (IF x = 0 THEN <<>> ELSE <<x>>) ELSE <<x>> \o r

RECURSIVE BLongDiv(_, _, _, _)
\* r1 is the running remainder and qd the limb of the quotient it gives
BLongDigit(n, d, r1, q, qd) ==
  BLongDiv(SubSeq(n, 1, Len(n) - 1), d, BSub(r1, BMulSmall(d, qd)), <<qd>> \o q)

\* the limbs of n are taken from the top; r is the running remainder, q the
\* limbs of the quotient so far
BLongDiv(n, d, r, q) ==
  IF n = <<>> THEN [q |-> q, r |-> r]
  ELSE BLongDigit(n, d, BPush(n[Len(n)], r), q, BDivDigit(BPush(n[Len(n)], r), d))

BUnshift(h, sh) == [q |-> BStrip(h.q), r |-> BShr(h.r, sh)]

\* n and d are scaled by 2^sh, which makes the top limb of d at least Base / 2
BDivModSh(n, d, sh) == BUnshift(BLongDiv(BShl(n, sh), BShl(d, sh), <<>>, <<>>), sh)

\* quotient and remainder of n by d, d # 0
BDivMod(n, d) == BDivModSh(n, d, LimbBits - BitLenNat(d[Len(d)]))

\* ------------------------------------------------------------------------
\* JavaScript values.  One record shape for every scalar:
\*   k = "num"        the finite number sg * m * 2^e  (m = <<>> is zero)
\*   k = "nan", k = "inf" (sg its sign), k = "undefined", k = "null"
\*   k = "str"        the string s
\* ------------------------------------------------------------------------
Dbl(sg, m, e) == [k |-> "num", sg |-> sg, m |-> m, e |-> e, s |-> ""]
Zero == Dbl(1, <<>>, 0)
NaN == [k |-> "nan", sg |-> 1, m |-> <<>>, e |-> 0, s |-> ""]
Infinity(sg) == [k |-> "inf", sg |-> sg, m |-> <<>>, e |-> 0, s |-> ""]
Undefined == [k |-> "undefined", sg |-> 1, m |-> <<>>, e |-> 0, s |-> ""]
Null == [k |-> "null", sg |-> 1, m |-> <<>>, e |-> 0, s |-> ""]
Str(t) == [k |-> "str", sg |-> 1, m |-> <<>>, e |-> 0, s |-> t]

\* round up: the cut-off part is more than half (c > 0), or half and q is odd
RoundUp(c, q) == c > 0 \/ (c = 0 /\ BIsOdd(q))

\* the mantissa q1 after rounding may have one bit too many
RoundQ(sg, q1, e) == IF BBitLen(q1) > MantBits THEN Dbl(sg, BShr(q1, 1), e + 1)
                     ELSE Dbl(sg, q1, e)

\* q = floor(n / 2^sh) keeps the top MantBits bits of n
RoundCut(sg, n, e, sh, q) ==
  RoundQ(sg, IF RoundUp(BCmp(BSub(n, BShl(q, sh)), BShl(<<1>>, sh - 1)), q)
             THEN BAdd(q, <<1>>) ELSE q, e + sh)

\* L is the number of bits of n
RoundBits(sg, n, e, L) ==
  IF L = 0 THEN Zero
  ELSE IF L <= MantBits THEN Dbl(sg, BShl(n, MantBits - L), e - (MantBits - L))
  ELSE RoundCut(sg, n, e, L - MantBits, BShr(n, L - MantBits))

\* the binary64 nearest to sg * n * 2^e, ties to even
RoundPack(sg, n, e) == RoundBits(sg, n, e, BBitLen(n))

FromInt(i) == RoundPack(IF i < 0 THEN -1 ELSE 1, BFromNat(IF i < 0 THEN -i ELSE i), 0)

DMul(a, b) == RoundPack(a.sg * b.sg, BMul(a.m, b.m), a.e + b.e)

\* h: quotient and remainder of a.m * 2^(MantBits + 2) by b.m.  The 56 bits
\* of the quotient and a sticky bit decide the rounding.
DDivQ(sg, h, e) ==
  RoundPack(sg, BAdd(BMulSmall(h.q, 2), IF h.r = <<>> THEN <<>> ELSE <<1>>), e)

\* a / b for b # 0
DDiv(a, b) ==
  IF a.m = <<>> THEN Zero
  ELSE DDivQ(a.sg * b.sg, BDivMod(BShl(a.m, MantBits + 2), b.m), a.e - b.e - (MantBits + 3))

\* x * 2^e and y * 2^e are the two numbers without their signs
DAddAligned(sa, sb, x, y, e) ==
  IF sa = sb THEN RoundPack(sa, BAdd(x, y), e)
  ELSE IF BCmp(x, y) = 0 THEN Zero
  ELSE IF BCmp(x, y) > 0 THEN RoundPack(sa, BSub(x, y), e)
  ELSE RoundPack(sb, BSub(y, x), e)

DAdd(a, b) ==
  IF a.m = <<>> THEN b ELSE IF b.m = <<>> THEN a
  ELSE DAddAligned(a.sg, b.sg,
                   BShl(a.m, a.e - (IF a.e < b.e THEN a.e ELSE b.e)),
                   BShl(b.m, b.e - (IF a.e < b.e THEN a.e ELSE b.e)),
                   IF a.e < b.e THEN a.e ELSE b.e)

DNeg(a) == IF a.m = <<>> THEN a ELSE Dbl(-a.sg, a.m, a.e)

\* -1, 0 or 1: the order of two finite numbers
DSign(d) == IF d.m = <<>> THEN 0 ELSE d.sg
DCmp(a, b) == DSign(DAdd(a, DNeg(b)))

\* A decimal literal with two decimals, as JSON.parse, parseFloat and the
\* compiler read it: the binary64 nearest to i / 100.
FromCents(i) == DDiv(FromInt(i), FromInt(100))

\* floor(|x| * 100 + 1/2), exactly: the digits x.toFixed(2) prints
Cents(x) ==
  IF x.m = <<>> THEN <<>>
  ELSE IF x.e >= 0 THEN BShl(BMulSmall(x.m, 100), x.e)
  ELSE BShr(BAdd(BMulSmall(x.m, 200), BShl(<<1>>, -x.e)), 1 - x.e)

\* floor(x + 1/2), exactly, as an integer
MathRoundInt(x) ==
  IF x.m = <<>> THEN 0
  ELSE IF x.e >= 0 THEN x.sg * BToNat(BShl(x.m, x.e))
  ELSE IF x.sg = 1 THEN BToNat(BShr(BAdd(x.m, BShl(<<1>>, -x.e - 1)), -x.e))
  ELSE -BToNat(BShr(BSub(BAdd(BMulSmall(x.m, 2), BShl(<<1>>, 1 - x.e)),
                          BAdd(BShl(<<1>>, -x.e), <<1>>)), 1 - x.e))

IsNumber(v) == v.k \in {"num", "nan", "inf"}

\* ToNumber.  The strings of this model are "" or not numeric.
ToNumber(v) == CASE v.k = "undefined" -> NaN
                 [] v.k = "null" -> Zero
                 [] v.k = "str" -> (IF v.s = "" THEN Zero ELSE NaN)
                 [] OTHER -> v

NumNeg(a) == CASE a.k = "num" -> DNeg(a)
               [] a.k = "inf" -> Infinity(-a.sg)
               [] OTHER -> a

NumAdd(a, b) ==
  CASE a.k = "nan" \/ b.k = "nan" -> NaN
    [] a.k = "inf" /\ b.k = "inf" -> (IF a.sg = b.sg THEN a ELSE NaN)
    [] a.k = "inf" -> a
    [] b.k = "inf" -> b
    [] OTHER -> DAdd(a, b)

NumMul(a, b) ==
  CASE a.k = "nan" \/ b.k = "nan" -> NaN
    [] a.k = "inf" \/ b.k = "inf" ->
         (IF (a.k = "num" /\ a.m = <<>>) \/ (b.k = "num" /\ b.m = <<>>) THEN NaN
          ELSE Infinity(a.sg * b.sg))
    [] OTHER -> DMul(a, b)

NumDiv(a, b) ==
  CASE a.k = "nan" \/ b.k = "nan" -> NaN
    [] a.k = "inf" /\ b.k = "inf" -> NaN
    [] a.k = "inf" -> Infinity(a.sg * b.sg)
    [] b.k = "inf" -> Zero
    [] b.m = <<>> -> (IF a.m = <<>> THEN NaN ELSE Infinity(a.sg))
    [] OTHER -> DDiv(a, b)

\* the text of an operand of a string concatenation; the digits of a number
\* operand are not kept
ToStringText(v) == IF v.k = "str" THEN v.s ELSE "#"

NumLe(a, b) ==
  CASE a.k = "nan" \/ b.k = "nan" -> FALSE
    [] a.k = "inf" -> (a.sg = -1 \/ (b.k = "inf" /\ b.sg = 1))
    [] b.k = "inf" -> b.sg = 1
    [] OTHER -> DCmp(a, b) <= 0
NumGt(a, b) ==
  CASE a.k = "nan" \/ b.k = "nan" -> FALSE
    [] OTHER -> ~NumLe(a, b)

\* the operators + - * / <= and ||
JsAdd(a, b) == IF a.k = "str" \/ b.k = "str"
               THEN Str(ToStringText(a) \o ToStringText(b))
               ELSE NumAdd(ToNumber(a), ToNumber(b))
JsSub(a, b) == NumAdd(ToNumber(a), NumNeg(ToNumber(b)))
JsMul(a, b) == NumMul(ToNumber(a), ToNumber(b))
JsDiv(a, b) == NumDiv(ToNumber(a), ToNumber(b))
JsLe(a, b) == NumLe(ToNumber(a), ToNumber(b))

Truthy(v) == CASE v.k = "num" -> v.m # <<>>
               [] v.k = "inf" -> TRUE
               [] v.k = "str" -> v.s # ""
               [] OTHER -> FALSE
JsOr(a, b) == IF Truthy(a) THEN a ELSE b

\* Number(x.toFixed(2)) for a number x: the two-decimal text of x, half away
\* from zero on the exact value of x, read back as a number
ToFixed2(x) ==
  CASE x.k = "num" -> DDiv(RoundPack(x.sg, Cents(x), 0), FromInt(100))
    [] OTHER -> x

\* Math.round and Math.max(0, x)
MathRound(x) == CASE x.k = "num" -> FromInt(MathRoundInt(x))
                  [] OTHER -> x
MathMax0(x) == CASE x.k = "nan" -> NaN
                 [] OTHER -> (IF x.sg = 1 THEN x ELSE Zero)

\* ------------------------------------------------------------------------
\* Number literals of the source
\* ------------------------------------------------------------------------
One == FromInt(1)
Hundred == FromInt(100)
Half == FromCents(50)
Tenth == FromCents(10)
LowStockDraw == FromCents(80)
OutOfStockDraw == FromCents(90)
PremiumFactor == FromCents(120)
StepFactor == FromCents(5)
Elasticity == FromCents(150)
HistoryLen == 6
range == 5

\* ------------------------------------------------------------------------
\* ProductInput (only cost and desiredMargin reach a result; the other fields
\* go into the prompt text)
\* ------------------------------------------------------------------------
ProductInput(costCents, margin) ==
  [cost |-> FromCents(costCents), desiredMargin |-> FromInt(margin)]

\* What the form lets through: cost is required, positive (the field shows a
\* cost of 0 as empty) and a multiple of 0.01; desiredMargin is a whole number.
CostCents == {10000, 1001}
Margins == {20, 50}
ProductInputs == {ProductInput(c, m) : c \in CostCents, m \in Margins}

\* ------------------------------------------------------------------------
\* The AI call and its JSON payload
\* ------------------------------------------------------------------------
\* a value that may be a list: k = "list" with its items, or "undefined",
\* "null", "str" (a non-empty string) with no items
ListVal(k, items) == [k |-> k, items |-> items]

\* a competitor entry of the payload: an object, or null
Entry(name, price, trend) == [k |-> "object", name |-> name, price |-> price, trend |-> trend]
NullEntry == [k |-> "null", name |-> Undefined, price |-> Undefined, trend |-> Undefined]

Payload(k, rp, mn, pr, expl, ev, sf, comps) ==
  [k |-> k,
   recommendedPrice |-> rp, minPrice |-> mn, premiumPrice |-> pr,
   strategy |-> Str("Value-Based"), explanation |-> expl, evidence |-> ev,
   confidenceScore |-> FromInt(87),
   seasonalitySignal |-> Str("High Summer Demand"), seasonalityFactor |-> sf,
   seasonalityExplanation |-> Str("Peak season"),
   competitors |-> comps]

\* {} : every field absent
EmptyObject ==
  [k |-> "object",
   recommendedPrice |-> Undefined, minPrice |-> Undefined, premiumPrice |-> Undefined,
   strategy |-> Undefined, explanation |-> Undefined, evidence |-> ListVal("undefined", <<>>),
   confidenceScore |-> Undefined,
   seasonalitySignal |-> Undefined, seasonalityFactor |-> Undefined,
   seasonalityExplanation |-> Undefined,
   competitors |-> ListVal("undefined", <<>>)]

\* JSON null
NullData == [EmptyObject EXCEPT !.k = "null"]

GoodEvidence == ListVal("list", <<Str("Competitors price higher"), Str("Demand is seasonal")>>)
GoodExplanation == Str("Priced against the local market.")
GoodPrice == FromCents(12999)
GoodMin == FromCents(11500)
GoodPremium == FromCents(14950)
GoodFactor == FromCents(110)

PriceValues == {GoodPrice, Zero, Undefined, Str("129.99 USD")}
MinValues == {GoodMin, Undefined}
PremiumValues == {GoodPremium, Undefined}
ExplanationValues == {GoodExplanation, Undefined}
EvidenceValues == {GoodEvidence, ListVal("undefined", <<>>), ListVal("str", <<>>)}
FactorValues == {GoodFactor, Zero, Undefined}

Entries == {Entry(Str("Acme"), FromCents(11500), Str("up")),
            Entry(Str("Bolt"), FromCents(9999), Undefined),
            Entry(Str("Cask"), Str("about 120"), Str("down")),
            NullEntry}

RECURSIVE SeqsUpTo(_, _)
SeqsUpTo(S, n) == IF n = 0 THEN {<<>>}
                  ELSE SeqsUpTo(S, n - 1)
                         \cup {Append(q, x) : q \in SeqsUpTo(S, n - 1), x \in S}

CompetitorValues ==
  {ListVal("list", q) : q \in SeqsUpTo(Entries, MaxCompetitors)}
    \cup {ListVal("undefined", <<>>), ListVal("null", <<>>), ListVal("str", <<>>)}

GoodPayload ==
  Payload("object", GoodPrice, GoodMin, GoodPremium, GoodExplanation, GoodEvidence,
          GoodFactor, ListVal("list", <<>>))

\* the payloads: the good one, the good one with one field changed, and {}
Payloads ==
  {[GoodPayload EXCEPT !.recommendedPrice = v] : v \in PriceValues}
  \cup {[GoodPayload EXCEPT !.minPrice = v] : v \in MinValues}
  \cup {[GoodPayload EXCEPT !.premiumPrice = v] : v \in PremiumValues}
  \cup {[GoodPayload EXCEPT !.explanation = v] : v \in ExplanationValues}
  \cup {[GoodPayload EXCEPT !.evidence = v] : v \in EvidenceValues}
  \cup {[GoodPayload EXCEPT !.seasonalityFactor = v] : v \in FactorValues}
  \cup {[GoodPayload EXCEPT !.competitors = v] : v \in CompetitorValues}
  \cup {EmptyObject}

\* how the AI call settles: it rejects, or resolves with a response whose text
\* is empty, is not JSON, or is the JSON text of `data`
Outcome(kind, data) == [kind |-> kind, data |-> data]
Outcomes == {Outcome("reject", NullData), Outcome("empty", NullData),
             Outcome("unparseable", NullData), Outcome("json", NullData)}
            \cup {Outcome("json", d) : d \in Payloads}

\* the values Math.random() returns for one competitor: r1, r2 for the stock
\* status, h[1..6] for the history
FlatDraws == [i \in 1..HistoryLen |-> Zero]
RampDraws == <<Zero, FromCents(20), FromCents(40), FromCents(60), FromCents(80), FromCents(99)>>
Draws == {[r1 |-> FromCents(50), r2 |-> FromCents(50), h |-> FlatDraws],
          [r1 |-> FromCents(95), r2 |-> FromCents(50), h |-> RampDraws],
          [r1 |-> FromCents(50), r2 |-> FromCents(95), h |-> RampDraws]}

\* ------------------------------------------------------------------------
\* SimulatedBackend.analyzePrice
\* ------------------------------------------------------------------------
Reverse(q) == [i \in 1..Len(q) |-> q[Len(q) + 1 - i]]

StockStatus(r1, r2) ==
  IF NumGt(r1, LowStockDraw) THEN "Low Stock"
  ELSE IF NumGt(r2, OutOfStockDraw) THEN "Out of Stock"
  ELSE "In Stock"

\* the variation taken over the whole price: c.price + (Math.random() - 0.5) * c.price
HistorySampleWide(price, r) == JsAdd(price, JsMul(JsSub(r, Half), price))

\* c.price + (Math.random() - 0.5) * (c.price * 0.1)
HistorySample(price, r) == JsAdd(price, JsMul(JsSub(r, Half), JsMul(price, Tenth)))

\* the callback of competitors.map throws: c is null, or c.price + variation is
\* a string, which has no toFixed
CompetitorThrows(c, d) ==
  \/ c.k = "null"
  \/ \E i \in 1..HistoryLen : ~IsNumber(HistorySample(c.price, d.h[i]))

\* the callback with trend: 'stable' for every competitor
CompetitorStable(c, d) ==
  [name |-> c.name,
   price |-> c.price,
   stockStatus |-> StockStatus(d.r1, d.r2),
   trend |-> Str("stable"),
   history |-> Reverse([i \in 1..HistoryLen |-> ToFixed2(HistorySample(c.price, d.h[i]))])]

Competitor(c, d) ==
  [name |-> c.name,
   price |-> c.price,
   stockStatus |-> StockStatus(d.r1, d.r2),
   trend |-> JsOr(c.trend, Str("stable")),
   history |-> Reverse([i \in 1..HistoryLen |-> ToFixed2(HistorySample(c.price, d.h[i]))])]

\* response.text || "{}", then JSON.parse
ParsedData(outcome) == IF outcome.kind = "empty" THEN EmptyObject ELSE outcome.data

\* data.competitors || []
CompetitorSource(data) ==
  IF data.competitors.k \in {"list", "str"} THEN data.competitors ELSE ListVal("list", <<>>)

\* one record of draws for each entry that competitors.map visits
DrawsFor(outcome) ==
  [1..Len(CompetitorSource(ParsedData(outcome)).items) -> Draws]

\* an exception inside the try block: the call rejects, JSON.parse throws, data
\* is null (data.competitors), the competitors value has no map, or the map
\* callback throws
TryThrows(outcome, rnd) ==
  \/ outcome.kind \in {"reject", "unparseable"}
  \/ ParsedData(outcome).k = "null"
  \/ CompetitorSource(ParsedData(outcome)).k # "list"
  \/ \E i \in 1..Len(CompetitorSource(ParsedData(outcome)).items) :
       CompetitorThrows(CompetitorSource(ParsedData(outcome)).items[i], rnd[i])

\* the object the catch block returns, basePrice being
\* input.cost * (1 + input.desiredMargin / 100)
FallbackResult(input, basePrice) ==
  [recommendedPrice |-> JsDiv(MathRound(JsMul(basePrice, Hundred)), Hundred),
   priceRange |-> [min |-> basePrice, suggested |-> basePrice,
                   premium |-> JsMul(basePrice, PremiumFactor)],
   profitMargin |-> input.desiredMargin,
   confidenceScore |-> FromInt(50),
   explanation |-> Str("Fallback pricing calculation due to service interruption."),
   evidence |-> ListVal("list", <<Str("Cost basis calculation")>>),
   strategy |-> Str("Cost-Plus"),
   seasonality |-> [signal |-> Str("Neutral"), adjustmentFactor |-> One,
                    explanation |-> Str("No data")],
   competitors |-> <<>>]

\* the catch block with basePrice = input.cost: the margin is left out
FallbackAtCost(input) == FallbackResult(input, input.cost)

\* the catch block
Fallback(input) ==
  FallbackResult(input, JsMul(input.cost, JsAdd(One, JsDiv(input.desiredMargin, Hundred))))

\* the markup over cost in place of the margin: (recommendedPrice - cost) / cost * 100
ProfitMarkup(recommendedPrice, cost) ==
  JsMul(JsDiv(JsSub(recommendedPrice, cost), cost), Hundred)

\* ((data.recommendedPrice - input.cost) / data.recommendedPrice) * 100
ProfitMargin(recommendedPrice, cost) ==
  JsMul(JsDiv(JsSub(recommendedPrice, cost), recommendedPrice), Hundred)

\* the object the try block returns
Success(input, data, rnd) ==
  [recommendedPrice |-> data.recommendedPrice,
   priceRange |-> [min |-> data.minPrice, suggested |-> data.recommendedPrice,
                   premium |-> data.premiumPrice],
   profitMargin |-> ProfitMargin(data.recommendedPrice, input.cost),
   confidenceScore |-> data.confidenceScore,
   explanation |-> data.explanation,
   evidence |-> data.evidence,
   strategy |-> data.strategy,
   seasonality |-> [signal |-> data.seasonalitySignal,
                    adjustmentFactor |-> JsOr(data.seasonalityFactor, One),
                    explanation |-> data.seasonalityExplanation],
   competitors |-> [i \in 1..Len(CompetitorSource(data).items) |->
                      Competitor(CompetitorSource(data).items[i], rnd[i])]]

\* analyzePrice without its catch block: the exception leaves the call and no
\* value is returned
analyzePriceUncaught(input, outcome, rnd) ==
  IF TryThrows(outcome, rnd)
  THEN [threw |-> TRUE, result |-> Null]
  ELSE [threw |-> FALSE, result |-> Success(input, ParsedData(outcome), rnd)]

\* threw: whether the catch block ran; result: the value the promise resolves with
analyzePrice(input, outcome, rnd) ==
  IF TryThrows(outcome, rnd)
  THEN [threw |-> TRUE, result |-> Fallback(input)]
  ELSE [threw |-> FALSE, result |-> Success(input, ParsedData(outcome), rnd)]

\* ------------------------------------------------------------------------
\* SimulatedBackend.calculateConversion
\* ------------------------------------------------------------------------
Offsets == (-range)..range

\* p = currentPrice + (i * step), step = currentPrice * 0.05
Candidate(currentPrice, i) ==
  JsAdd(currentPrice, JsMul(FromInt(i), JsMul(currentPrice, StepFactor)))

\* if (p < cost) continue: a candidate at cost is kept
EmittedAtCost(currentPrice, cost, i) == JsLe(cost, Candidate(currentPrice, i))

\* if (p <= cost) continue
Emitted(currentPrice, cost, i) == ~JsLe(Candidate(currentPrice, i), cost)

\* estimatedSales without Math.round
EstimatedSalesUnrounded(currentPrice, p) ==
  MathMax0(JsMul(Hundred,
    JsAdd(One, JsMul(NumNeg(Elasticity), JsDiv(JsSub(p, currentPrice), currentPrice)))))

\* Math.max(0, Math.round(100 * (1 + pctChangeDemand))), with
\* pctChangeDemand = -elasticity * pctChangePrice, pctChangePrice = (p - currentPrice) / currentPrice
EstimatedSales(currentPrice, p) ==
  MathMax0(MathRound(JsMul(Hundred,
    JsAdd(One, JsMul(NumNeg(Elasticity), JsDiv(JsSub(p, currentPrice), currentPrice))))))

\* the object data.push receives
Point(p, estimatedSales) ==
  [price |-> ToFixed2(p),
   estimatedSales |-> estimatedSales,
   revenue |-> ToFixed2(JsMul(p, estimatedSales))]

ConversionPoint(currentPrice, i) ==
  Point(Candidate(currentPrice, i), EstimatedSales(currentPrice, Candidate(currentPrice, i)))

\* the loop with data.unshift in place of data.push
RECURSIVE PointsUnshifted(_, _, _)
PointsUnshifted(currentPrice, cost, i) ==
  IF i > range THEN <<>>
  ELSE PointsUnshifted(currentPrice, cost, i + 1)
       \o (IF Emitted(currentPrice, cost, i) THEN <<ConversionPoint(currentPrice, i)>> ELSE <<>>)

RECURSIVE PointsFrom(_, _, _)
PointsFrom(currentPrice, cost, i) ==
  IF i > range THEN <<>>
  ELSE (IF Emitted(currentPrice, cost, i) THEN <<ConversionPoint(currentPrice, i)>> ELSE <<>>)
       \o PointsFrom(currentPrice, cost, i + 1)

\* p.toFixed is called on a string: p is a string exactly when currentPrice is
ConversionThrows(currentPrice, cost) ==
  /\ currentPrice.k = "str"
  /\ \E i \in Offsets : Emitted(currentPrice, cost, i) /\ ~IsNumber(Candidate(currentPrice, i))

calculateConversion(currentPrice, cost) ==
  IF ConversionThrows(currentPrice, cost)
  THEN [threw |-> TRUE, points |-> <<>>]
  ELSE [threw |-> FALSE, points |-> PointsFrom(currentPrice, cost, -range)]

\* ------------------------------------------------------------------------
\* DashboardResult: an exception while rendering
\* ------------------------------------------------------------------------
DashboardThrows(result, input) ==
  \/ ConversionThrows(result.recommendedPrice, input.cost)
  \/ ~IsNumber(result.profitMargin)
  \/ result.evidence.k # "list"

\* ------------------------------------------------------------------------
\* DashboardResult: the two tiles under the conversion chart
\* ------------------------------------------------------------------------
\* Math.max of two Numbers
NumMax(a, b) ==
  CASE a.k = "nan" \/ b.k = "nan" -> NaN
    [] OTHER -> (IF NumLe(a, b) THEN b ELSE a)

\* Math.max(...conversionData.map(d => d.revenue)): -Infinity for no point
RECURSIVE MaxRevenueFrom(_, _, _)
MaxRevenueFrom(points, k, best) ==
  IF k > Len(points) THEN best
  ELSE MaxRevenueFrom(points, k + 1, NumMax(best, points[k].revenue))

MaxRevenue(points) == MaxRevenueFrom(points, 1, Infinity(-1))

\* Math.abs
MathAbs(x) == CASE x.k = "num" -> Dbl(1, x.m, x.e)
                [] x.k = "inf" -> Infinity(1)
                [] OTHER -> x

\* Math.abs(d.price - result.recommendedPrice) < 1
NearRecommended(price, recommendedPrice) ==
  NumGt(One, MathAbs(JsSub(price, recommendedPrice)))

\* conversionData.find(...): the index of the first point found, 0 for none
RECURSIVE FindNear(_, _, _)
FindNear(points, recommendedPrice, k) ==
  IF k > Len(points) THEN 0
  ELSE IF NearRecommended(points[k].price, recommendedPrice) THEN k
  ELSE FindNear(points, recommendedPrice, k + 1)

\* found?.estimatedSales || 'N/A'
VolumeOf(points, k) ==
  IF k = 0 THEN Str("N/A") ELSE JsOr(points[k].estimatedSales, Str("N/A"))

VolAtRecPrice(points, recommendedPrice) ==
  VolumeOf(points, FindNear(points, recommendedPrice, 1))


\* ------------------------------------------------------------------------
\* State
\* ------------------------------------------------------------------------
VARIABLES
  viewMode,       \* App: "landing" or "app"
  currentView,    \* App: "pricing", "scenarios" or "rules"
  pricingResult,  \* App: Null or a PricingResult
  lastInput,      \* App: Null or a ProductInput
  isAnalyzing,    \* App
  pending,        \* the handleAnalyze calls in flight: the ProductInput of each
                  \* and where it waits ("timer": the 800 ms delay, "ai": the
                  \* AI call inside analyzePrice)
  crashed,        \* a render threw: React has unmounted the application
  lastCall,       \* Null, or the analyzePrice call that completed for the
                  \* latest submission: its input, how the AI call settled,
                  \* whether the catch block ran, the value it resolved with
  curve           \* a call of calculateConversion: its arguments and, once it
                  \* has returned, its points and the two tiles DashboardResult
                  \* computes from them

appVars == <<viewMode, currentView, pricingResult, lastInput, isAnalyzing, pending,
             crashed, lastCall>>
vars == <<viewMode, currentView, pricingResult, lastInput, isAnalyzing, pending,
          crashed, lastCall, curve>>

Views == {"pricing", "scenarios", "rules"}

NoCurve == [pc |-> "none", currentPrice |-> Zero, cost |-> Zero, points |-> <<>>,
            optimalRevenue |-> Undefined, volAtRecPrice |-> Undefined]

InitApp ==
  /\ viewMode = "landing"
  /\ currentView = "pricing"
  /\ pricingResult = Null
  /\ lastInput = Null
  /\ isAnalyzing = FALSE
  /\ pending = <<>>
  /\ crashed = FALSE
  /\ lastCall = Null

Init == InitApp /\ curve = NoCurve

\* ------------------------------------------------------------------------
\* App: what a render does
\* ------------------------------------------------------------------------
\* the form is on screen
FormShown(vm, cv, pr) == vm = "app" /\ cv = "pricing" /\ pr = Null

\* DashboardResult is on screen
DashboardShown(vm, cv, pr, li) == vm = "app" /\ cv = "pricing" /\ pr # Null /\ li # Null

\* the render of App with this state throws
RenderThrows(vm, cv, pr, li) == DashboardShown(vm, cv, pr, li) /\ DashboardThrows(pr, li)

\* ------------------------------------------------------------------------
\* Actions: each event handler, followed by the render of the new state
\* ------------------------------------------------------------------------
\* Header / HomePage onLaunch
Launch ==
  /\ ~crashed /\ viewMode = "landing"
  /\ viewMode' = "app"
  /\ crashed' = RenderThrows("app", currentView, pricingResult, lastInput)
  /\ UNCHANGED <<currentView, pricingResult, lastInput, isAnalyzing, pending, lastCall, curve>>

\* onHome that also clears the stored result
HomeClearsResult ==
  /\ ~crashed /\ viewMode = "app"
  /\ viewMode' = "landing"
  /\ pricingResult' = Null
  /\ UNCHANGED <<currentView, lastInput, isAnalyzing, pending, crashed, lastCall, curve>>

\* Header onHome
Home ==
  /\ ~crashed /\ viewMode = "app"
  /\ viewMode' = "landing"
  /\ UNCHANGED <<currentView, pricingResult, lastInput, isAnalyzing, pending, crashed,
                 lastCall, curve>>

\* onClick that also clears the stored result
SelectViewClears(v) ==
  /\ ~crashed /\ viewMode = "app"
  /\ currentView' = v
  /\ pricingResult' = Null
  /\ crashed' = FALSE
  /\ UNCHANGED <<viewMode, lastInput, isAnalyzing, pending, lastCall, curve>>

\* SidebarItem onClick
SelectView(v) ==
  /\ ~crashed /\ viewMode = "app"
  /\ currentView' = v
  /\ crashed' = RenderThrows(viewMode, v, pricingResult, lastInput)
  /\ UNCHANGED <<viewMode, pricingResult, lastInput, isAnalyzing, pending, lastCall, curve>>

\* handleAnalyze without setLastInput(data)
SubmitKeepsInput(data) ==
  /\ ~crashed /\ FormShown(viewMode, currentView, pricingResult)
  /\ ~isAnalyzing
  /\ isAnalyzing' = TRUE
  /\ pending' = Append(pending, [data |-> data, pc |-> "timer"])
  /\ lastCall' = Null
  /\ UNCHANGED <<viewMode, currentView, pricingResult, lastInput, crashed, curve>>

\* the submit button is never disabled
SubmitWhileAnalyzing(data) ==
  /\ ~crashed /\ FormShown(viewMode, currentView, pricingResult)
  /\ isAnalyzing' = TRUE
  /\ lastInput' = data
  /\ pending' = Append(pending, [data |-> data, pc |-> "timer"])
  /\ lastCall' = Null
  /\ UNCHANGED <<viewMode, currentView, pricingResult, crashed, curve>>

\* PricingInputForm submit -> App.handleAnalyze(data), up to its first await.
\* The submit button is disabled while isAnalyzing.
Submit(data) ==
  /\ ~crashed /\ FormShown(viewMode, currentView, pricingResult)
  /\ ~isAnalyzing
  /\ isAnalyzing' = TRUE
  /\ lastInput' = data
  /\ pending' = Append(pending, [data |-> data, pc |-> "timer"])
  /\ lastCall' = Null
  /\ UNCHANGED <<viewMode, currentView, pricingResult, crashed, curve>>

\* the 800 ms timer fires: handleAnalyze calls analyzePrice, which awaits the AI call
TimerFires(i) ==
  /\ i \in 1..Len(pending) /\ pending[i].pc = "timer"
  /\ pending' = [pending EXCEPT ![i].pc = "ai"]
  /\ UNCHANGED <<viewMode, currentView, pricingResult, lastInput, isAnalyzing, crashed,
                 lastCall, curve>>

Remove(q, i) == SubSeq(q, 1, i - 1) \o SubSeq(q, i + 1, Len(q))

\* a call of analyzePrice: its input, how the AI call settles, the values
\* Math.random() returns, and what the call returns
Call(input, outcome, rnd) ==
  [input |-> input, outcome |-> outcome, rnd |-> rnd,
   ret |-> analyzePrice(input, outcome, rnd)]

AnalyzeCalls ==
  UNION {{Call(input, outcome, rnd) : input \in ProductInputs, rnd \in DrawsFor(outcome)} :
           outcome \in Outcomes}

\* analyzePrice without its catch block: an exception inside it leaves
\* handleAnalyze before setPricingResult and setIsAnalyzing(false)
AiSettlesUncaught(i, call) ==
  /\ i \in 1..Len(pending) /\ pending[i].pc = "ai"
  /\ call.input = pending[i].data
  /\ pricingResult' = (IF call.ret.threw THEN pricingResult ELSE call.ret.result)
  /\ lastCall' = call
  /\ crashed' = (crashed \/ (~call.ret.threw
                              /\ RenderThrows(viewMode, currentView, call.ret.result, lastInput)))
  /\ isAnalyzing' = (call.ret.threw /\ isAnalyzing)
  /\ pending' = Remove(pending, i)
  /\ UNCHANGED <<viewMode, currentView, lastInput, curve>>

\* the AI call settles: the rest of analyzePrice, then of handleAnalyze
AiSettles(i, call) ==
  /\ i \in 1..Len(pending) /\ pending[i].pc = "ai"
  /\ call.input = pending[i].data
  /\ pricingResult' = call.ret.result
  /\ lastCall' = call
  /\ crashed' = (crashed \/ RenderThrows(viewMode, currentView, call.ret.result, lastInput))
  /\ isAnalyzing' = FALSE
  /\ pending' = Remove(pending, i)
  /\ UNCHANGED <<viewMode, currentView, lastInput, curve>>

\* DashboardResult onBack
Back ==
  /\ ~crashed /\ DashboardShown(viewMode, currentView, pricingResult, lastInput)
  /\ pricingResult' = Null
  /\ UNCHANGED <<viewMode, currentView, lastInput, isAnalyzing, pending, crashed,
                 lastCall, curve>>

Next ==
  \/ Launch
  \/ Home
  \/ \E v \in Views : SelectView(v)
  \/ \E data \in ProductInputs : Submit(data)
  \/ \E i \in 1..Len(pending) : TimerFires(i)
  \/ \E i \in 1..Len(pending), call \in AnalyzeCalls : AiSettles(i, call)
  \/ Back

Spec == Init /\ [][Next]_vars

\* The 800 ms timer fires, and the AI call settles (it resolves or rejects):
\* a handleAnalyze that waits for one of them goes on.
SpecLive ==
  /\ Spec
  /\ WF_vars(\E i \in 1..Len(pending) : TimerFires(i))
  /\ WF_vars(\E i \in 1..Len(pending), call \in AnalyzeCalls : AiSettles(i, call))

\* ------------------------------------------------------------------------
\* calculateConversion on its own: one call for each pair of arguments
\* ------------------------------------------------------------------------
CurvePriceCents ==
  (1..MaxSmallPrice) \cup {120, 1000, 4999, 5000, 10000, 12999} \cup {0, -1000}
CurveCostCents == {-2000, 0, 1, 3, 6, 11, 4750, 5000, 9500}

\* the pairs (currentPrice, cost) in cents, those with cost = currentPrice among them
CurveArgs ==
  (CurvePriceCents \X CurveCostCents) \cup {<<c, c>> : c \in CurvePriceCents}

InitCurve ==
  /\ InitApp
  /\ curve \in {[pc |-> "call", currentPrice |-> FromCents(a[1]), cost |-> FromCents(a[2]),
                 points |-> <<>>, optimalRevenue |-> Undefined,
                 volAtRecPrice |-> Undefined] : a \in CurveArgs}

\* what DashboardResult computes from the points: the chart data and the
\* values of the tiles Optimal Revenue and Vol. at Rec. Price
CurveShown(c, points) ==
  [c EXCEPT !.pc = "done", !.points = points,
            !.optimalRevenue = MaxRevenue(points),
            !.volAtRecPrice = VolAtRecPrice(points, c.currentPrice)]

CalculateConversion ==
  /\ curve.pc = "call"
  /\ curve' = CurveShown(curve, calculateConversion(curve.currentPrice, curve.cost).points)
  /\ UNCHANGED appVars

NextCurve == CalculateConversion

SpecCurve == InitCurve /\ [][NextCurve]_vars

\* ------------------------------------------------------------------------
\* Properties of analyzePrice, stated on the call that completed last
\* ------------------------------------------------------------------------
Completed == lastCall # Null

\* the AI call resolved with the JSON text of an object
ParsedObject(outcome) == outcome.kind = "json" /\ outcome.data.k = "object"

\* a competitor entry of the payload as the response schema describes it
EntryWellFormed(c) == c.k = "object" /\ c.name.k = "str" /\ c.price.k = "num"

\* every required field of the response schema is there, of its kind
WellFormed(data) ==
  /\ data.recommendedPrice.k = "num" /\ data.minPrice.k = "num"
  /\ data.premiumPrice.k = "num" /\ data.explanation.k = "str"
  /\ data.evidence.k = "list" /\ data.competitors.k = "list"
  /\ \A i \in 1..Len(data.competitors.items) : EntryWellFormed(data.competitors.items[i])

\* (recommendedPrice - cost) / recommendedPrice * 100
MarginOf(recommendedPrice, cost) ==
  JsMul(JsDiv(JsSub(recommendedPrice, cost), recommendedPrice), Hundred)

\* C1: when the AI call returns parseable JSON in which a required field is
\* absent or of the wrong kind, analyzePrice returns the cost-plus fallback
\* result and not a result built from the payload.
C1_MalformedGivesFallback ==
  (Completed /\ ParsedObject(lastCall.outcome) /\ ~WellFormed(lastCall.outcome.data))
    => /\ lastCall.ret.result = Fallback(lastCall.input)
       /\ lastCall.ret.result.strategy = Str("Cost-Plus")
       /\ lastCall.ret.result.confidenceScore = FromInt(50)
       /\ lastCall.ret.result.competitors = <<>>

\* ------------------------------------------------------------------------
\* the outcomes of the AI call that raise an exception inside the try block
Exceptional(outcome) ==
  \/ outcome.kind \in {"reject", "unparseable"}
  \/ outcome.kind = "json" /\ outcome.data.k = "null"
  \/ outcome.kind = "json" /\ outcome.data.competitors.k = "str"
  \/ /\ outcome.kind = "json" /\ outcome.data.competitors.k = "list"
     /\ \E i \in 1..Len(outcome.data.competitors.items) :
          outcome.data.competitors.items[i].k = "null"

PricingResultFields ==
  {"recommendedPrice", "priceRange", "profitMargin", "confidenceScore", "explanation",
   "evidence", "strategy", "seasonality", "competitors"}

\* C2: analyzePrice never raises or rejects: for every input and every outcome
\* of the AI call the promise resolves with a PricingResult object, and when
\* an exception occurs inside the try block (rejection, unparseable text, JSON
\* null, competitors that is not a list, a null competitor entry) the value is
\* the fallback result.
C2_AlwaysResolves ==
  Completed =>
    /\ pricingResult \in {Null, lastCall.ret.result}
    /\ DOMAIN lastCall.ret.result = PricingResultFields
    /\ lastCall.ret.threw => lastCall.ret.result = Fallback(lastCall.input)
    /\ Exceptional(lastCall.outcome) =>
         lastCall.ret.threw /\ lastCall.ret.result = Fallback(lastCall.input)

C2_Witness ==
  /\ Completed /\ lastCall.outcome.kind = "json"
  /\ lastCall.outcome.data.competitors = ListVal("list", <<NullEntry>>)
  /\ lastCall.ret.threw
  /\ pricingResult = Fallback(lastCall.input)

\* C3: the application never reaches the crashed state (an uncaught exception
\* while rendering DashboardResult).
C3_NeverCrashes == ~crashed

\* C4: every result of analyzePrice, from the payload or from the fallback,
\* has profitMargin = (recommendedPrice - cost) / recommendedPrice * 100 with
\* the cost of the submitted input.
C4_MarginRecomputed ==
  Completed =>
    lastCall.ret.result.profitMargin
      = MarginOf(lastCall.ret.result.recommendedPrice, lastCall.input.cost)

\* C5: on the success path (a payload with every required field and a
\* recommendedPrice that is not zero) recommendedPrice and priceRange.suggested
\* are the payload's recommendedPrice, priceRange.min its minPrice,
\* priceRange.premium its premiumPrice, and profitMargin is
\* (recommendedPrice - input.cost) / recommendedPrice * 100.
C5_SuccessPath ==
  (/\ Completed /\ ParsedObject(lastCall.outcome) /\ WellFormed(lastCall.outcome.data)
   /\ lastCall.outcome.data.recommendedPrice # Zero)
    => /\ ~lastCall.ret.threw
       /\ lastCall.ret.result.recommendedPrice = lastCall.outcome.data.recommendedPrice
       /\ lastCall.ret.result.priceRange.suggested = lastCall.outcome.data.recommendedPrice
       /\ lastCall.ret.result.priceRange.min = lastCall.outcome.data.minPrice
       /\ lastCall.ret.result.priceRange.premium = lastCall.outcome.data.premiumPrice
       /\ lastCall.ret.result.profitMargin
            = MarginOf(lastCall.outcome.data.recommendedPrice, lastCall.input.cost)
       /\ lastCall.ret.result.profitMargin.k = "num"

C5_Witness ==
  /\ Completed /\ lastCall.outcome = Outcome("json", GoodPayload)
  /\ lastCall.input = ProductInput(10000, 20)
  /\ pricingResult # Null
  /\ pricingResult.recommendedPrice = GoodPrice
  /\ pricingResult.profitMargin = MarginOf(GoodPrice, FromCents(10000))

\* cost * (1 + desiredMargin / 100)
BasePrice(input) == JsMul(input.cost, JsAdd(One, JsDiv(input.desiredMargin, Hundred)))

\* C6: the fallback result has recommendedPrice = cost * (1 + desiredMargin/100)
\* rounded to 2 decimals (the whole number of cents nearest to 100 times it,
\* over 100), profitMargin = desiredMargin, confidenceScore 50, strategy
\* Cost-Plus, one fixed evidence note, adjustmentFactor 1 and no competitors;
\* cost 100 and desiredMargin 20 give recommendedPrice 120.00, profitMargin 20.
C6_FallbackValues ==
  (Completed /\ lastCall.ret.threw)
    => /\ lastCall.ret.result.recommendedPrice
            = FromCents(MathRoundInt(JsMul(BasePrice(lastCall.input), Hundred)))
       /\ lastCall.ret.result.profitMargin = lastCall.input.desiredMargin
       /\ lastCall.ret.result.confidenceScore = FromInt(50)
       /\ lastCall.ret.result.strategy = Str("Cost-Plus")
       /\ lastCall.ret.result.evidence = ListVal("list", <<Str("Cost basis calculation")>>)
       /\ lastCall.ret.result.seasonality.adjustmentFactor = One
       /\ lastCall.ret.result.competitors = <<>>
       /\ lastCall.input = ProductInput(10000, 20)
            => /\ lastCall.ret.result.recommendedPrice = FromCents(12000)
               /\ lastCall.ret.result.profitMargin = FromInt(20)

C6_Witness ==
  /\ Completed /\ lastCall.outcome.kind = "unparseable"
  /\ lastCall.input = ProductInput(1001, 20)
  /\ lastCall.ret.result.recommendedPrice = FromCents(1201)
  /\ BasePrice(lastCall.input) # FromCents(1201)

\* C7: in every fallback result priceRange.min = priceRange.suggested =
\* recommendedPrice (the 2-decimal value) and priceRange.premium =
\* recommendedPrice * 1.2.
C7_FallbackRange ==
  (Completed /\ lastCall.ret.threw)
    => /\ lastCall.ret.result.priceRange.min = lastCall.ret.result.recommendedPrice
       /\ lastCall.ret.result.priceRange.suggested = lastCall.ret.result.recommendedPrice
       /\ lastCall.ret.result.priceRange.premium
            = JsMul(lastCall.ret.result.recommendedPrice, PremiumFactor)

\* C8: when the payload's recommendedPrice is 0 the result has profitMargin 0
\* or is the fallback result; profitMargin is never infinite or not-a-number.
C8_ZeroPriceGuarded ==
  (/\ Completed /\ ParsedObject(lastCall.outcome)
   /\ lastCall.outcome.data.recommendedPrice = Zero)
    => /\ \/ lastCall.ret.result.profitMargin = Zero
          \/ lastCall.ret.result = Fallback(lastCall.input)
       /\ lastCall.ret.result.profitMargin.k = "num"

\* ------------------------------------------------------------------------
\* Properties of calculateConversion, stated on a call that has returned
\* ------------------------------------------------------------------------
Returned == curve.pc = "done"

\* the offsets whose candidate price is above cost
OffsetsAbove(currentPrice, cost) ==
  {i \in Offsets : NumGt(Candidate(currentPrice, i), cost)}

\* the k-th of a set of offsets, counted from the smallest
KthOffset(S, k) == CHOOSE i \in S : Cardinality({j \in S : j < i}) = k - 1

\* the offset of the k-th point of the call that returned
OffsetOf(k) == KthOffset(OffsetsAbove(curve.currentPrice, curve.cost), k)

\* the points are those of the offsets above cost, in ascending order of offset
PointsFollowOffsets ==
  /\ Len(curve.points) = Cardinality(OffsetsAbove(curve.currentPrice, curve.cost))
  /\ \A k \in 1..Len(curve.points) :
       curve.points[k].price = ToFixed2(Candidate(curve.currentPrice, OffsetOf(k)))

Positive(x) == NumGt(x, Zero)

\* C9: calculateConversion returns at most 11 points, one for offset i exactly
\* when currentPrice + i * 0.05 * currentPrice > cost, and the 2-decimal price
\* field of every point is strictly greater than cost.
C9_AboveCost ==
  Returned =>
    /\ Len(curve.points) <= 11
    /\ PointsFollowOffsets
    /\ \A k \in 1..Len(curve.points) : NumGt(curve.points[k].price, curve.cost)

\* C10: for currentPrice > 0 and cost < 0.75 * currentPrice there are exactly
\* 11 points; the point of offset 0 has price = currentPrice, estimatedSales
\* 100 and revenue 100 * currentPrice; the point of offset +5 has price
\* 1.25 * currentPrice (to 2 decimals) and estimatedSales 63.
C10_ElevenPoints ==
  (/\ Returned /\ Positive(curve.currentPrice)
   /\ NumGt(JsMul(FromCents(75), curve.currentPrice), curve.cost))
    => /\ Len(curve.points) = 11
       /\ curve.points[6].price = curve.currentPrice
       /\ curve.points[6].estimatedSales = Hundred
       /\ curve.points[6].revenue = ToFixed2(JsMul(Hundred, curve.currentPrice))
       /\ curve.points[11].price = ToFixed2(JsMul(FromCents(125), curve.currentPrice))
       /\ curve.points[11].estimatedSales = FromInt(63)

C12_NonPositivePriceEmpty ==
  Returned =>
    /\ ~Positive(curve.currentPrice) => curve.points = <<>>
    /\ \A k \in 1..Len(curve.points) :
         curve.points[k].estimatedSales.k = "num" /\ curve.points[k].revenue.k = "num"

\* C13 as the specification states it: the price fields are strictly ascending.
C13_Original ==
  Returned =>
    \A k \in 1..(Len(curve.points) - 1) :
      NumGt(curve.points[k + 1].price, curve.points[k].price)

\* C13: the points are in ascending order of the offset i; for currentPrice > 0
\* their price fields never descend, and two neighbours can carry the same
\* 2-decimal price.
C13_AscendingOffsets ==
  Returned =>
    /\ PointsFollowOffsets
    /\ Positive(curve.currentPrice) =>
         \A k \in 1..(Len(curve.points) - 1) :
           NumLe(curve.points[k].price, curve.points[k + 1].price)

C13_Witness ==
  /\ Returned /\ Len(curve.points) = 11
  /\ curve.points[1].price = curve.points[2].price
  /\ NumGt(curve.points[11].price, curve.points[1].price)

\* a non-negative whole number
IsCount(x) == x.k = "num" /\ DSign(x) >= 0 /\ MathRound(x) = x

\* C14 as the specification states it: revenue is the point's own price field
\* times estimatedSales, to 2 decimals, and estimatedSales is a non-negative
\* integer.
C14_Original ==
  Returned =>
    \A k \in 1..Len(curve.points) :
      /\ curve.points[k].revenue
           = ToFixed2(JsMul(curve.points[k].price, curve.points[k].estimatedSales))
      /\ IsCount(curve.points[k].estimatedSales)

\* C14: for currentPrice > 0, revenue is the candidate price p (before it is
\* rounded) times estimatedSales, to 2 decimals, and estimatedSales is a
\* non-negative integer.
C14_RevenueOfCandidate ==
  (Returned /\ Positive(curve.currentPrice)) =>
    /\ PointsFollowOffsets
    /\ \A k \in 1..Len(curve.points) :
         /\ curve.points[k].revenue
              = ToFixed2(JsMul(Candidate(curve.currentPrice, OffsetOf(k)),
                               curve.points[k].estimatedSales))
         /\ IsCount(curve.points[k].estimatedSales)

C14_Witness ==
  /\ Returned /\ Positive(curve.currentPrice) /\ Len(curve.points) > 0
  /\ curve.points[1].revenue
       # ToFixed2(JsMul(curve.points[1].price, curve.points[1].estimatedSales))
  /\ IsCount(curve.points[1].estimatedSales)

\* ------------------------------------------------------------------------
\* Properties of App and of the competitor list
\* ------------------------------------------------------------------------
\* C15: at most one AI call is outstanding in any reachable state: once a
\* submission has set isAnalyzing, no sequence of user actions starts a second
\* analysis before the first completes.
C15_OneOutstandingCall ==
  /\ Len(pending) <= 1
  /\ isAnalyzing <=> Len(pending) = 1

C15_Witness ==
  /\ isAnalyzing /\ Len(pending) = 1 /\ pending[1].pc = "ai"
  /\ ~crashed /\ FormShown(viewMode, currentView, pricingResult)

\* the values of Math.random() at the middle of each twentieth of [0, 1): every
\* value stands for a share 1/20 of the uniform draws
DrawGrid == {FromCents(5 * j + 2) : j \in 0..19}

\* how many of the 400 equally likely pairs of draws give the status
StockCount(status) ==
  Cardinality({d \in DrawGrid \X DrawGrid : StockStatus(d[1], d[2]) = status})
InStockCount == StockCount("In Stock")
LowStockCount == StockCount("Low Stock")
OutOfStockCount == StockCount("Out of Stock")

\* the competitors of the call that completed last
ResultCompetitors == IF Completed THEN lastCall.ret.result.competitors ELSE <<>>

\* C16: with independent uniform draws the stock status is In Stock with
\* probability 0.80, Low Stock with 0.10 and Out of Stock with 0.10, and it is
\* always one of these three values.
C16_StockDistribution ==
  /\ InStockCount * 100 = 80 * 400
  /\ LowStockCount * 100 = 10 * 400
  /\ OutOfStockCount * 100 = 10 * 400
  /\ \A i \in 1..Len(ResultCompetitors) :
       ResultCompetitors[i].stockStatus \in {"In Stock", "Low Stock", "Out of Stock"}

\* the payload's competitor list of a call that took the success path
PayloadCompetitors == lastCall.outcome.data.competitors.items

SuccessWithCompetitors ==
  /\ Completed /\ ~lastCall.ret.threw /\ ParsedObject(lastCall.outcome)
  /\ lastCall.outcome.data.competitors.k = "list"

\* draws that give another stock status than d
OtherDraws(d) == CHOOSE o \in Draws : StockStatus(o.r1, o.r2) # StockStatus(d.r1, d.r2)

HalfCent == JsMul(Half, FromCents(1))
NearBound(price) == JsAdd(JsMul(StepFactor, price), HalfCent)

\* |d| <= b
AbsLe(d, b) == NumLe(d, b) /\ NumLe(NumNeg(d), b)

\* C18: every competitor of a result has a history of exactly 6 numbers, each
\* within 5% of the competitor's price, up to the rounding to 2 decimals.
C18_HistoryNearPrice ==
  \A i \in 1..Len(ResultCompetitors) :
    /\ Len(ResultCompetitors[i].history) = 6
    /\ \A b \in {NearBound(ResultCompetitors[i].price)} :
         \A j \in 1..Len(ResultCompetitors[i].history) :
           /\ ResultCompetitors[i].history[j].k = "num"
           /\ AbsLe(JsSub(ResultCompetitors[i].history[j], ResultCompetitors[i].price), b)

C18_Witness ==
  /\ Len(ResultCompetitors) > 0
  /\ ResultCompetitors[1].price = FromCents(9999)
  /\ ResultCompetitors[1].history[1] = FromCents(10489)
  /\ ResultCompetitors[1].history[6] = FromCents(9499)

\* C19: seasonality.adjustmentFactor is the payload's seasonalityFactor whenever
\* it is present, for every numeric value, and 1.0 only when it is absent;
\* signal and explanation are the payload's.
C19_FactorVerbatim ==
  (Completed /\ ~lastCall.ret.threw /\ ParsedObject(lastCall.outcome)) =>
    /\ lastCall.ret.result.seasonality.adjustmentFactor
         = (IF lastCall.outcome.data.seasonalityFactor.k = "undefined" THEN One
            ELSE lastCall.outcome.data.seasonalityFactor)
    /\ lastCall.ret.result.seasonality.signal = lastCall.outcome.data.seasonalitySignal
    /\ lastCall.ret.result.seasonality.explanation
         = lastCall.outcome.data.seasonalityExplanation

\* C20: the stored pricingResult is replaced as a whole, when an analysis
\* completes, by the object that call of analyzePrice returned; the only other
\* write is Back, which clears it.
C20_ReplacedWholesale ==
  [][pricingResult' # pricingResult =>
       \/ /\ pending # <<>> /\ pending' = <<>> /\ ~isAnalyzing'
          /\ lastCall' # Null /\ lastCall'.input = lastInput
          /\ lastCall'.ret = analyzePrice(lastCall'.input, lastCall'.outcome, lastCall'.rnd)
          /\ pricingResult' = lastCall'.ret.result
       \/ /\ DashboardShown(viewMode, currentView, pricingResult, lastInput)
          /\ pricingResult' = Null
          /\ UNCHANGED <<viewMode, currentView, lastInput, isAnalyzing, pending, lastCall>>]_vars

C20_Witness ==
  /\ Completed /\ ~lastCall.ret.threw /\ ~isAnalyzing /\ pending = <<>>
  /\ pricingResult = lastCall.ret.result
  /\ pricingResult.strategy = Str("Value-Based")
  /\ viewMode = "landing"

\* ------------------------------------------------------------------------
\* Properties of the curve and of the tiles DashboardResult computes from it
\* ------------------------------------------------------------------------
\* round(100 - 7.5 * i), halves rounded up
SalesAtOffset(i) == FromInt((201 - 15 * i) \div 2)

\* C23: for currentPrice > 0 the estimatedSales of the point of offset i
\* depends on i alone: it is round(100 - 7.5 * i) with halves rounded up, lies
\* in 63..138, strictly decreases as i increases, and is never clamped to 0.
C23_SalesByOffset ==
  (Returned /\ Positive(curve.currentPrice)) =>
    /\ \A k \in 1..Len(curve.points) :
         /\ curve.points[k].estimatedSales = SalesAtOffset(OffsetOf(k))
         /\ NumLe(FromInt(63), curve.points[k].estimatedSales)
         /\ NumLe(curve.points[k].estimatedSales, FromInt(138))
    /\ \A k \in 1..(Len(curve.points) - 1) :
         NumGt(curve.points[k].estimatedSales, curve.points[k + 1].estimatedSales)

\* the position of the point of an emitted offset i among the points
IndexOfOffset(i) ==
  Cardinality({j \in OffsetsAbove(curve.currentPrice, curve.cost) : j <= i})

OffsetEmitted(i) == i \in OffsetsAbove(curve.currentPrice, curve.cost)

\* C24: for currentPrice > 0 the maximum revenue over the emitted points (the
\* Optimal Revenue tile) is the revenue of the point of offset -3 whenever that
\* point is emitted, and of the lowest-priced emitted point otherwise; the
\* point of offset 0 is never the maximum when a lower-priced point is emitted.
C24_OptimalRevenue ==
  (Returned /\ Positive(curve.currentPrice) /\ curve.points # <<>>) =>
    /\ curve.optimalRevenue
         = (IF OffsetEmitted(-3) THEN curve.points[IndexOfOffset(-3)].revenue
            ELSE curve.points[1].revenue)
    /\ (OffsetEmitted(0) /\ OffsetEmitted(-1))
         => NumGt(curve.optimalRevenue, curve.points[IndexOfOffset(0)].revenue)

\* C25: whenever recommendedPrice > cost the Vol. at Rec. Price tile shows the
\* estimatedSales of the point of offset 0, which is 100, for every positive
\* recommendedPrice.
C25_VolumeAtRecommended ==
  (Returned /\ Positive(curve.currentPrice) /\ NumGt(curve.currentPrice, curve.cost)) =>
    /\ OffsetEmitted(0)
    /\ curve.points[IndexOfOffset(0)].estimatedSales = Hundred
    /\ curve.volAtRecPrice = Hundred

\* ------------------------------------------------------------------------
\* Properties of App: completion, the stored input, navigation
\* ------------------------------------------------------------------------
\* C21: every submission eventually completes when the AI call settles: once
\* isAnalyzing is true, a state follows in which isAnalyzing is false and
\* pricingResult is not null, also when an exception occurs inside analyzePrice.
C21_SubmissionCompletes ==
  isAnalyzing ~> (~isAnalyzing /\ pricingResult # Null)

C21_Witness ==
  /\ Completed /\ lastCall.outcome.kind = "reject" /\ lastCall.ret.threw
  /\ ~isAnalyzing /\ pending = <<>>
  /\ pricingResult # Null /\ pricingResult.strategy = Str("Cost-Plus")

\* C22: whenever pricingResult is not null, lastInput is not null and the
\* stored result is the one analyzePrice computed from the ProductInput stored
\* in lastInput.
C22_ResultOfLastInput ==
  pricingResult # Null =>
    /\ lastInput # Null
    /\ Completed /\ lastCall.input = lastInput
    /\ pricingResult = lastCall.ret.result
    /\ pricingResult.profitMargin
         = (IF lastCall.ret.threw THEN lastInput.desiredMargin
            ELSE ProfitMargin(pricingResult.recommendedPrice, lastInput.cost))

C22_Witness ==
  /\ pricingResult # Null /\ lastInput = ProductInput(1001, 50)
  /\ Completed /\ lastCall.input = lastInput /\ ~lastCall.ret.threw
  /\ DashboardShown(viewMode, currentView, pricingResult, lastInput)

\* C26: a navigation action (selecting a view, Launch App, returning to the
\* landing page) leaves pricingResult, lastInput and isAnalyzing unchanged, and
\* an analysis that completes while the form is not on screen still stores its
\* result and clears isAnalyzing.
C26_NavigationFrame ==
  [][/\ (viewMode' # viewMode \/ currentView' # currentView)
          => UNCHANGED <<pricingResult, lastInput, isAnalyzing, pending>>
     /\ (pending # <<>> /\ pending' = <<>>)
          => (pricingResult' # Null /\ ~isAnalyzing' /\ lastCall' # Null
              /\ pricingResult' = lastCall'.ret.result)]_vars

C26_Witness ==
  /\ viewMode = "app" /\ currentView = "scenarios"
  /\ Completed /\ pricingResult = lastCall.ret.result /\ ~isAnalyzing
  /\ lastCall.outcome.kind = "empty"

====
